---- MODULE Spec2Model ----
(***************************************************************************)
(* A model of testcontainer-go's provisioning provider (docker.go), its    *)
(* container requests (container.go) and the reaper protocol client        *)
(* (reaper.go).                                                            *)
(*                                                                         *)
(* Three scenarios are specified over one set of variables:                *)
(*   Spec        test code calling DockerProvider.CreateContainer and      *)
(*               DockerProvider.RunContainer; the Go call stack is the     *)
(*               variable stack, one frame per active function call.       *)
(*   ReaperSpec  test code holding a Reaper, calling Reaper.Connect and    *)
(*               sending on the termination channel, with the watcher      *)
(*               goroutine of Connect stepping through its handshake loop. *)
(*               FairReaperSpec adds the scheduling of that goroutine.     *)
(*   HandleSpec  test code holding a DockerContainer and calling its       *)
(*               methods (Start, Terminate and the getters over the        *)
(*               inspect cache) while the runtime's container changes.     *)
(***************************************************************************)
EXTENDS Integers, Sequences, FiniteSets, TLC

VARIABLES
    stack,       \* the goroutine's call stack: Seq of frames, innermost last
    fatal,       \* the Go runtime killed the process: "fatal error: stack overflow"
    calls,       \* number of calls test code has made on a provider
    call,        \* the last call test code made: [fn, provider, req]
    result,      \* what the last call of test code returned
    nextUUID,    \* number of uuid.NewV4() draws so far
    issued,      \* history: [provider, sessionID] of every session CreateContainer generated
    reapers,     \* every Reaper struct allocated by NewReaper (reaper.go:33)
    connected,   \* SessionIDs of the Reapers whose Connect opened a connection
    images,      \* runtime: images present locally
    containers,  \* runtime: the containers that exist, [ID, Image, Labels, State]
    nextID,      \* runtime: number of container IDs assigned so far
    rtFailed,    \* history: some call on the runtime client returned an error
    rtCalls,     \* history: number of calls issued on the runtime client, by method
    reaper,      \* the Reaper test code holds in the reaper scenario
    callerPc,    \* test code: idle, connected, connectErr, sending, sent
    watcherPc,   \* the goroutine of Connect: none, start, loop, write, flush, read, wait, done
    conn,        \* this process's end of the connection: none, open, closed
    labelFilters, \* the watcher's labelFilters slice
    retryLimit,  \* the watcher's retryLimit
    wbuf,        \* bufio.Writer: the text buffered and not yet flushed
    werr,        \* bufio.Writer: its sticky error is set
    wire,        \* the text the connection carried to the sidecar, one entry per flush
    peerClosed,  \* the sidecar closed its end: reads end with io.EOF
    attempts,    \* history: number of filter writes (sock.WriteString calls)
    failures,    \* history: what ended each failed attempt: "write", "read" or "nonack"
    replies,     \* history: what the sidecar answered each read with
    gaveUp,      \* history: the watcher printed its warning and returned
    handle,      \* the DockerContainer test code holds in the handle scenario
    hlast,       \* the last method test code called on the handle, and what it gave
    terminated   \* history: a Terminate on the handle returned nil

provVars ==
    <<stack, fatal, calls, call, result, nextUUID, issued, reapers, images, containers,
      nextID, rtFailed, rtCalls>>

reaperVars ==
    <<reaper, callerPc, watcherPc, conn, labelFilters, retryLimit, wbuf, werr, wire,
      peerClosed, attempts, failures, replies, gaveUp>>

handleVars == <<handle, hlast, terminated>>

vars == <<provVars, connected, reaperVars, handleVars>>

(***************************************************************************)
(* Bounds of the model.                                                    *)
(***************************************************************************)
\* Frames the goroutine stack holds before the Go runtime's stack limit is hit.
MaxStack == 7
\* Calls test code makes on providers in one run.
MaxCalls == 2

Providers == {"p1", "p2"}

(***************************************************************************)
(* reaper.go: constants and the label scheme.                              *)
(***************************************************************************)
TestcontainerLabel == "org.testcontainers.golang"
TestcontainerLabelSessionID == TestcontainerLabel \o ".sessionId"
ReaperDefaultImage == "quay.io/testcontainers/ryuk:0.2.2"

InvariantKeys == {TestcontainerLabel, TestcontainerLabelSessionID}

NoLabels == [k \in {} |-> ""]

NoReaper == [Provider |-> "", SessionID |-> "", Endpoint |-> ""]

\* Reaper.GetLabels: a fresh map of the two keys.
GetLabels(r) ==
    [k \in InvariantKeys |-> IF k = TestcontainerLabel THEN "true" ELSE r.SessionID]

\* uuid.NewV4() followed by UUID.String(): the n-th draw, as text. Draws never
\* collide, so the n-th draw is a value no earlier draw gave.
UUIDString(n) == "uuid-" \o ToString(n)

(***************************************************************************)
(* container.go: the requests test code submits.                           *)
(***************************************************************************)
PortSpecs == {<<>>, <<"80/tcp">>, <<"80/tcp/udp">>}
Cmds == {"", "sleep 1"}
RequestLabels ==
    { NoLabels,
      [k \in {"team"} |-> "qa"],
      [k \in {TestcontainerLabelSessionID} |-> "other"],
      [k \in {TestcontainerLabel, "team"} |-> IF k = "team" THEN "qa" ELSE "false"] }

\* WaitingFor: no strategy, or one (wait.WaitStrategy, an interface).
Strategies == {"nil", "strategy"}

ContainerRequest ==
    [Image : {"alpine"}, ExportedPort : PortSpecs, Cmd : Cmds,
     Labels : RequestLabels, WaitingFor : Strategies, Mounts : {{}}]

\* strings.Split(cmd, " ") on the commands of the model.
Split(cmd) == IF cmd = "sleep 1" THEN <<"sleep", "1">> ELSE <<cmd>>

\* The nat.Port a well-formed specification of the model names: the protocol
\* is tcp when the specification gives none.
WellFormedSpecs == {"80/tcp", "80/udp", "80", "8080"}
NatPort(spec) ==
    CASE spec = "80" -> "80/tcp"
      [] spec = "8080" -> "8080/tcp"
      [] OTHER -> spec

\* nat.ParsePortSpecs on the port specifications of the model: "80/tcp" is
\* well-formed, "80/tcp/udp" is not ("Invalid containerPort").
ParsePortSpecs(specs) ==
    IF \E i \in 1..Len(specs) : specs[i] \notin WellFormedSpecs
    THEN [err |-> "invalid port", portSet |-> {}, portMap |-> {}]
    ELSE [err |-> "", portSet |-> {NatPort(specs[i]) : i \in 1..Len(specs)},
          portMap |-> {<<NatPort(specs[i]), "">> : i \in 1..Len(specs)}]

(***************************************************************************)
(* docker.go: the container.Config literal of CreateContainer.             *)
(***************************************************************************)
\* A mutant of DockerInput: the request's labels are laid over the Reaper's.
DockerInputRequestWins(req, exposedPortSet, r) ==
    [Image |-> req.Image,
     ExposedPorts |-> exposedPortSet,
     Labels |-> [k \in InvariantKeys \cup DOMAIN req.Labels |->
                    IF k \in DOMAIN req.Labels THEN req.Labels[k] ELSE GetLabels(r)[k]],
     Cmd |-> <<>>]

\* dockerInput := &container.Config{Image, Env, ExposedPorts, Labels: r.GetLabels()}
DockerInput(req, exposedPortSet, r) ==
    [Image |-> req.Image,
     ExposedPorts |-> exposedPortSet,
     Labels |-> GetLabels(r),
     Cmd |-> <<>>]

(***************************************************************************)
(* The runtime behind client.Client, as far as the provider and its        *)
(* containers call it. A container of the runtime is a record              *)
(* [ID, Image, Labels, State, ExposedPorts, PortBindings, Ports,           *)
(* IPAddress]: ExposedPorts of its Config, PortBindings the ports its      *)
(* HostConfig publishes, Ports and IPAddress its NetworkSettings.          *)
(***************************************************************************)
RuntimeCalls ==
    {"ImageInspectWithRaw", "ImagePull", "ContainerCreate", "ContainerStart",
     "ContainerRemove", "ContainerInspect"}

NoCalls == [m \in RuntimeCalls |-> 0]

\* One more call of method m issued.
Issued(rc, m) == [rc EXCEPT ![m] = @ + 1]

\* The error of the runtime for an ID it holds no container of.
NotFound == "No such container"

NoPorts == [k \in {} |-> <<>>]

\* types.ContainerJSON; the value with ID "" stands for the nil pointer.
NoRaw ==
    [ID |-> "", Config |-> [ExposedPorts |-> {}],
     NetworkSettings |-> [Ports |-> NoPorts, IPAddress |-> ""]]

Exists(cs, id) == \E c \in cs : c.ID = id

\* The host port the runtime binds a published port to.
HostPortOf(k) ==
    CASE k = "80/tcp" -> "32768"
      [] k = "80/udp" -> "32769"
      [] OTHER -> "32770"

\* The addresses the runtime gives a container: at its first start, and at a
\* later restart.
FirstIP == "172.17.0.2"
LaterIP == "172.17.0.3"

\* A container once started: running, every exposed port has an entry in
\* NetworkSettings.Ports, with one binding when the port is published and
\* none (null) when it is not.
Started(c) ==
    IF c.State = "running" THEN c
    ELSE [c EXCEPT !.State = "running",
                   !.IPAddress = FirstIP,
                   !.Ports = [k \in c.ExposedPorts |->
                                 IF k \in c.PortBindings
                                 THEN <<[HostIP |-> "0.0.0.0", HostPort |-> HostPortOf(k)]>>
                                 ELSE <<>>]]

\* client.ContainerStart(ctx, id, ...): `ok` tells whether the runtime carries
\* the call out for a container it holds.
ContainerStart(cs, id, ok) ==
    IF ~Exists(cs, id) THEN [containers |-> cs, err |-> NotFound]
    ELSE IF ~ok THEN [containers |-> cs, err |-> "start failed"]
    ELSE [containers |-> {IF c.ID = id THEN Started(c) ELSE c : c \in cs}, err |-> ""]

\* A mutant of ContainerRemove: the container is stopped and kept.
ContainerRemoveStops(cs, id, ok) ==
    IF ~Exists(cs, id) THEN [containers |-> cs, err |-> NotFound]
    ELSE IF ~ok THEN [containers |-> cs, err |-> "remove failed"]
    ELSE [containers |-> {IF c.ID = id THEN [c EXCEPT !.State = "exited"] ELSE c : c \in cs},
          err |-> ""]

\* client.ContainerRemove(ctx, id, types.ContainerRemoveOptions{Force: true})
ContainerRemove(cs, id, ok) ==
    IF ~Exists(cs, id) THEN [containers |-> cs, err |-> NotFound]
    ELSE IF ~ok THEN [containers |-> cs, err |-> "remove failed"]
    ELSE [containers |-> {c \in cs : c.ID # id}, err |-> ""]

\* client.ContainerInspect(ctx, id): the container's state as it is now.
ContainerInspect(cs, id, ok) ==
    IF ~Exists(cs, id) THEN [json |-> NoRaw, err |-> NotFound]
    ELSE IF ~ok THEN [json |-> NoRaw, err |-> "inspect failed"]
    ELSE LET c == CHOOSE x \in cs : x.ID = id IN
         [json |-> [ID |-> id, Config |-> [ExposedPorts |-> c.ExposedPorts],
                    NetworkSettings |-> [Ports |-> c.Ports, IPAddress |-> c.IPAddress]],
          err |-> ""]

(***************************************************************************)
(* docker.go: the methods of DockerContainer. Each is an operator from the *)
(* handle c, the containers cs of the runtime and the runtime's choices to *)
(* what the method leaves and returns.                                     *)
(***************************************************************************)
\* DockerContainer, its zero value.
NoHandle == [ID |-> "", WaitingFor |-> "nil", sessionID |-> "", raw |-> NoRaw, provider |-> ""]

\* A mutant of inspectContainer: the cache is not consulted.
InspectContainerNoCache(c, cs, ok) ==
    LET rt == ContainerInspect(cs, c.ID, ok) IN
    IF rt.err # ""
    THEN [c |-> c, inspect |-> NoRaw, err |-> rt.err, called |-> TRUE]
    ELSE [c |-> [c EXCEPT !.raw = rt.json], inspect |-> rt.json, err |-> "", called |-> TRUE]

\* A mutant of inspectContainer: c.raw is set before the error is looked at.
InspectContainerCachesFailure(c, cs, ok) ==
    IF c.raw # NoRaw
    THEN [c |-> c, inspect |-> c.raw, err |-> "", called |-> FALSE]
    ELSE LET rt == ContainerInspect(cs, c.ID, ok) IN
         IF rt.err # ""
         THEN [c |-> [c EXCEPT !.raw = [rt.json EXCEPT !.ID = c.ID]], inspect |-> NoRaw,
               err |-> rt.err, called |-> TRUE]
         ELSE [c |-> [c EXCEPT !.raw = rt.json], inspect |-> rt.json, err |-> "",
               called |-> TRUE]

\* if c.raw != nil { return c.raw, nil }; inspect, err := ...ContainerInspect(ctx, c.ID);
\* if err != nil { return nil, err }; c.raw = &inspect; return c.raw, nil
inspectContainer(c, cs, ok) ==
    IF c.raw # NoRaw
    THEN [c |-> c, inspect |-> c.raw, err |-> "", called |-> FALSE]
    ELSE LET rt == ContainerInspect(cs, c.ID, ok) IN
         IF rt.err # ""
         THEN [c |-> c, inspect |-> NoRaw, err |-> rt.err, called |-> TRUE]
         ELSE [c |-> [c EXCEPT !.raw = rt.json], inspect |-> rt.json, err |-> "",
               called |-> TRUE]

\* What a getter gives: the handle as it leaves it, whether it issued an
\* inspect and the error of that inspect, its results (ports for a nat.PortSet,
\* ret for a string), its error, and whether it ended in a runtime panic.
Outcome(i, ret, ports, err, panic) ==
    [c |-> i.c, called |-> i.called, rtErr |-> i.err, ret |-> ret, ports |-> ports,
     err |-> err, panic |-> panic]

\* GetPorts: inspect.Config.ExposedPorts
GetPorts(c, cs, ok) ==
    LET i == inspectContainer(c, cs, ok) IN
    IF i.err # "" THEN {Outcome(i, "", {}, i.err, FALSE)}
    ELSE {Outcome(i, "", i.inspect.Config.ExposedPorts, "", FALSE)}

\* GetIPAddress: inspect.NetworkSettings.IPAddress
GetIPAddress(c, cs, ok) ==
    LET i == inspectContainer(c, cs, ok) IN
    IF i.err # "" THEN {Outcome(i, "", {}, i.err, FALSE)}
    ELSE {Outcome(i, i.inspect.NetworkSettings.IPAddress, {}, "", FALSE)}

\* nat.Port.Port(): the number of a port, without its protocol.
Port(k) == IF k \in {"80/tcp", "80/udp"} THEN "80" ELSE "8080"

\* strconv.Itoa
Itoa(n) == ToString(n)

\* GetMappedPort: `for k, p := range inspect.NetworkSettings.Ports` visits the
\* keys in an order the map chooses and returns at the first key whose number
\* is port's, with p[0].HostPort; indexing an empty p is a runtime panic
\* (index out of range). "0" when no key matches.
GetMappedPort(c, cs, ok, port) ==
    LET i == inspectContainer(c, cs, ok)
        Ports == i.inspect.NetworkSettings.Ports
        K == {k \in DOMAIN Ports : Port(k) = Itoa(port)}
    IN  IF i.err # "" THEN {Outcome(i, "", {}, i.err, FALSE)}
        ELSE IF K = {} THEN {Outcome(i, "0", {}, "", FALSE)}
        ELSE {IF Len(Ports[k]) = 0
              THEN Outcome(i, "", {}, "", TRUE)
              ELSE Outcome(i, Ports[k][1].HostPort, {}, "", FALSE) : k \in K}

\* GetHostEndpoint: the port is parsed, its key looked up in
\* inspect.NetworkSettings.Ports; "port %s not found" when the key is missing
\* or has no binding, else "HostIP:HostPort" of the first binding.
GetHostEndpoint(c, cs, ok, port) ==
    LET i == inspectContainer(c, cs, ok)
        ps == ParsePortSpecs(<<port>>)
        Ports == i.inspect.NetworkSettings.Ports
    IN  IF i.err # "" THEN {Outcome(i, "", {}, i.err, FALSE)}
        ELSE IF ps.err # "" THEN {Outcome(i, "", {}, ps.err, FALSE)}
        ELSE {IF p \notin DOMAIN Ports THEN Outcome(i, "", {}, "port not found", FALSE)
              ELSE IF Len(Ports[p]) = 0 THEN Outcome(i, "", {}, "port not found", FALSE)
              ELSE Outcome(i, Ports[p][1].HostIP \o ":" \o Ports[p][1].HostPort, {}, "",
                           FALSE) : p \in ps.portSet}

\* A mutant of Start: the strategy is asked first, the runtime after it.
StartWaitsFirst(c, cs, ok, ready) ==
    LET rt == ContainerStart(cs, c.ID, ok) IN
    IF c.WaitingFor # "nil" /\ ~ready
    THEN [containers |-> cs, rtErr |-> "", waitErr |-> "not ready", err |-> "not ready",
          waited |-> TRUE, started |-> FALSE]
    ELSE [containers |-> rt.containers, rtErr |-> rt.err, waitErr |-> "", err |-> rt.err,
          waited |-> c.WaitingFor # "nil", started |-> TRUE]

\* Start: ContainerStart, its error returned at once; then, when c.WaitingFor
\* is not nil, WaitUntilReady(ctx, c), whose error (`ready` false) is returned.
\* rtErr is the runtime's error and waitErr the strategy's, started tells that
\* ContainerStart was issued and waited that the strategy was invoked.
Start(c, cs, ok, ready) ==
    LET rt == ContainerStart(cs, c.ID, ok)
        waitErr == IF ready THEN "" ELSE "not ready"
    IN  IF rt.err # ""
        THEN [containers |-> rt.containers, rtErr |-> rt.err, waitErr |-> "",
              err |-> rt.err, waited |-> FALSE, started |-> TRUE]
        ELSE IF c.WaitingFor # "nil"
        THEN [containers |-> rt.containers, rtErr |-> "", waitErr |-> waitErr,
              err |-> waitErr, waited |-> TRUE, started |-> TRUE]
        ELSE [containers |-> rt.containers, rtErr |-> "", waitErr |-> "", err |-> "",
              waited |-> FALSE, started |-> TRUE]

\* Terminate: ContainerRemove with Force, its error returned.
Terminate(c, cs, ok) == ContainerRemove(cs, c.ID, ok)

(***************************************************************************)
(* Frames, return values and the stack.                                    *)
(***************************************************************************)
NoRet == [c |-> NoHandle, r |-> NoReaper, err |-> ""]
NoCfg == [Image |-> "", ExposedPorts |-> {}, Labels |-> NoLabels, Cmd |-> <<>>]
NoRequest ==
    [Image |-> "", ExportedPort |-> <<>>, Cmd |-> "", Labels |-> NoLabels,
     WaitingFor |-> "nil", Mounts |-> {}]

Frame(fn, pc, p, req) ==
    [fn |-> fn, pc |-> pc, provider |-> p, req |-> req,
     sessionID |-> "", r |-> NoReaper, ret |-> NoRet, cfg |-> NoCfg]

Top == stack[Len(stack)]
Below == SubSeq(stack, 1, Len(stack) - 1)

\* The frame `f` in place of the innermost frame.
SetTop(f) == stack' = Below \o <<f>>

\* A function call: the caller's frame is left as `caller` (at its continuation)
\* and the callee's frame is pushed. The Go runtime grows the goroutine stack on
\* demand up to its limit; a call that needs more ends the process with
\* "fatal error: stack overflow".
Call(caller, callee) ==
    IF Len(stack) >= MaxStack
    THEN /\ fatal' = TRUE
         /\ UNCHANGED stack
    ELSE /\ stack' = Below \o <<caller, callee>>
         /\ UNCHANGED fatal

\* A return: the innermost frame is popped and the value handed to the caller,
\* a frame waiting at its continuation or the test code.
Return(val) ==
    /\ stack' = IF Len(stack) = 1 THEN <<>>
                ELSE SubSeq(stack, 1, Len(stack) - 2)
                     \o <<[stack[Len(stack) - 1] EXCEPT !.ret = val]>>
    /\ result' = IF Len(stack) = 1 THEN val ELSE result
    /\ UNCHANGED fatal

Err(e) == [NoRet EXCEPT !.err = e]

(***************************************************************************)
(* docker.go: DockerProvider.CreateContainer, one arm per stretch of code  *)
(* between two calls.                                                      *)
(***************************************************************************)
\* A mutant of CreateContainerParse: the session is drawn and the Reaper
\* allocated before the error of ParsePortSpecs is looked at.
CreateContainerParseLate ==
    LET ps == ParsePortSpecs(Top.req.ExportedPort) IN
    /\ IF ps.err # ""
       THEN Return(Err(ps.err))
       ELSE /\ SetTop([Top EXCEPT !.pc = "reaper"])
            /\ UNCHANGED <<fatal, result>>
    /\ nextUUID' = nextUUID + 1
    /\ reapers' = reapers \cup {[Provider |-> Top.provider,
                                  SessionID |-> UUIDString(nextUUID + 1), Endpoint |-> ""]}
    /\ UNCHANGED <<issued, images, containers, nextID, rtFailed, rtCalls>>

\* exposedPortSet, exposedPortMap, err := nat.ParsePortSpecs(req.ExportedPort)
CreateContainerParse ==
    LET ps == ParsePortSpecs(Top.req.ExportedPort) IN
    /\ IF ps.err # ""
       THEN Return(Err(ps.err))
       ELSE /\ SetTop([Top EXCEPT !.pc = "reaper"])
            /\ UNCHANGED <<fatal, result>>
    /\ UNCHANGED <<nextUUID, issued, reapers, images, containers, nextID, rtFailed,
                   rtCalls>>

\* sessionID := uuid.NewV4(); r, err := NewReaper(ctx, sessionID.String(), p)
CreateContainerNewReaper ==
    LET sid == UUIDString(nextUUID + 1) IN
    /\ nextUUID' = nextUUID + 1
    /\ issued' = issued \cup {[provider |-> Top.provider, sessionID |-> sid]}
    /\ Call([Top EXCEPT !.pc = "reaperRet", !.sessionID = sid],
            [Frame("NewReaper", "alloc", Top.provider, NoRequest) EXCEPT !.sessionID = sid])
    /\ UNCHANGED <<result, reapers, images, containers, nextID, rtFailed, rtCalls>>

\* if err != nil { return nil, errors.Wrap(err, "creating reaper failed") }
CreateContainerReaperRet ==
    /\ IF Top.ret.err # ""
       THEN Return(Err("creating reaper failed: " \o Top.ret.err))
       ELSE /\ SetTop([Top EXCEPT !.pc = "config", !.r = Top.ret.r])
            /\ UNCHANGED <<fatal, result>>
    /\ UNCHANGED <<nextUUID, issued, reapers, images, containers, nextID, rtFailed,
                   rtCalls>>

\* dockerInput := &container.Config{...};
\* if req.Cmd != "" { dockerInput.Cmd = strings.Split(req.Cmd, " ") }
CreateContainerConfig ==
    LET cfg == DockerInput(Top.req, ParsePortSpecs(Top.req.ExportedPort).portSet, Top.r) IN
    /\ SetTop([Top EXCEPT !.pc = "image",
                          !.cfg = IF Top.req.Cmd # ""
                                  THEN [cfg EXCEPT !.Cmd = Split(Top.req.Cmd)]
                                  ELSE cfg])
    /\ UNCHANGED <<fatal, result, nextUUID, issued, reapers, images, containers, nextID,
                   rtFailed, rtCalls>>

\* ImageInspectWithRaw; when the image is not found, ImagePull and ReadAll: the
\* image is present once the pull's stream was read to its end. Any other
\* error, and a failed pull, is returned.
CreateContainerImage ==
    \E inspectOK \in BOOLEAN, pullOK \in BOOLEAN :
        /\ IF inspectOK /\ Top.req.Image \in images
           THEN /\ SetTop([Top EXCEPT !.pc = "create"])
                /\ UNCHANGED <<fatal, result, images>>
           ELSE IF inspectOK /\ pullOK
           THEN /\ SetTop([Top EXCEPT !.pc = "create"])
                /\ images' = images \cup {Top.req.Image}
                /\ UNCHANGED <<fatal, result>>
           ELSE /\ Return(Err("image"))
                /\ UNCHANGED images
        /\ rtFailed' = (rtFailed \/ ~inspectOK \/ (Top.req.Image \notin images /\ ~pullOK))
        /\ rtCalls' = IF inspectOK /\ Top.req.Image \notin images
                      THEN Issued(Issued(rtCalls, "ImageInspectWithRaw"), "ImagePull")
                      ELSE Issued(rtCalls, "ImageInspectWithRaw")
        /\ UNCHANGED <<nextUUID, issued, reapers, containers, nextID>>

\* resp, err := p.client.ContainerCreate(ctx, dockerInput, hostConfig, nil, "");
\* c := &DockerContainer{ID: resp.ID, sessionID: sessionID, provider: p}; return c, nil
CreateContainerCreate ==
    \E createOK \in BOOLEAN :
        LET id == "c" \o ToString(nextID + 1) IN
        /\ IF createOK
           THEN /\ containers' = containers \cup
                        {[ID |-> id, Image |-> Top.cfg.Image, Labels |-> Top.cfg.Labels,
                          State |-> "created", ExposedPorts |-> Top.cfg.ExposedPorts,
                          PortBindings |->
                              {b[1] : b \in ParsePortSpecs(Top.req.ExportedPort).portMap},
                          Ports |-> NoPorts, IPAddress |-> ""]}
                /\ nextID' = nextID + 1
                /\ Return([NoRet EXCEPT !.c = [ID |-> id, WaitingFor |-> Top.req.WaitingFor,
                                               sessionID |-> Top.sessionID, raw |-> NoRaw,
                                               provider |-> Top.provider]])
           ELSE /\ Return(Err("create"))
                /\ UNCHANGED <<containers, nextID>>
        /\ rtFailed' = (rtFailed \/ ~createOK)
        /\ rtCalls' = Issued(rtCalls, "ContainerCreate")
        /\ UNCHANGED <<nextUUID, issued, reapers, images>>

(***************************************************************************)
(* reaper.go: NewReaper.                                                   *)
(***************************************************************************)
\* r := &Reaper{Provider: provider, SessionID: sessionID}; req := ContainerRequest{...}
NewReaperAlloc ==
    LET r == [Provider |-> Top.provider, SessionID |-> Top.sessionID, Endpoint |-> ""] IN
    /\ reapers' = reapers \cup {r}
    /\ SetTop([Top EXCEPT !.pc = "run", !.r = r,
                          !.req = [Image |-> ReaperDefaultImage, ExportedPort |-> <<>>,
                                   Cmd |-> "", Labels |-> GetLabels(r), WaitingFor |-> "nil",
                                   Mounts |-> {"/var/run/docker.sock"}]])
    /\ UNCHANGED <<fatal, result, nextUUID, issued, images, containers, nextID, rtFailed,
                   rtCalls>>

\* c, err := provider.RunContainer(ctx, req): the provider is the DockerProvider
\* that CreateContainer passed.
NewReaperRun ==
    /\ Call([Top EXCEPT !.pc = "runRet"],
            Frame("RunContainer", "create", Top.provider, Top.req))
    /\ UNCHANGED <<result, nextUUID, issued, reapers, images, containers, nextID, rtFailed,
                   rtCalls>>

\* if err != nil { return nil, err }; endpoint, err := c.GetHostEndpoint(ctx, "8080");
\* if err != nil { return nil, err }; r.Endpoint = endpoint; return r, nil
NewReaperRunRet ==
    \E endpointOK \in BOOLEAN :
        /\ IF Top.ret.err # ""
           THEN Return(Err(Top.ret.err))
           ELSE IF ~endpointOK
           THEN Return(Err("port 8080 not found"))
           ELSE Return([NoRet EXCEPT !.r = [Top.r EXCEPT !.Endpoint = "localhost:8080"]])
        /\ rtCalls' = IF Top.ret.err # "" THEN rtCalls ELSE Issued(rtCalls, "ContainerInspect")
        /\ UNCHANGED <<nextUUID, issued, reapers, images, containers, nextID, rtFailed>>

(***************************************************************************)
(* docker.go: DockerProvider.RunContainer.                                 *)
(***************************************************************************)
\* c, err := p.CreateContainer(ctx, req)
RunContainerCreate ==
    /\ Call([Top EXCEPT !.pc = "createRet"],
            Frame("CreateContainer", "parse", Top.provider, Top.req))
    /\ UNCHANGED <<result, nextUUID, issued, reapers, images, containers, nextID, rtFailed,
                   rtCalls>>

\* if err != nil { return nil, err }; if err := c.Start(ctx); err != nil
\* { return c, errors.Wrap(err, "could not start container") }; return c, nil:
\* what RunContainer does with the value `ret` of CreateContainer, over the
\* containers cs of the runtime.
RunContainerTail(ret, cs, startOK, ready) ==
    LET st == Start(ret.c, cs, startOK, ready) IN
    IF ret.err # ""
    THEN [containers |-> cs, ret |-> Err(ret.err), started |-> FALSE, rtErr |-> ""]
    ELSE [containers |-> st.containers,
          ret |-> [NoRet EXCEPT !.c = ret.c,
                                !.err = IF st.err # ""
                                        THEN "could not start container: " \o st.err
                                        ELSE ""],
          started |-> st.started, rtErr |-> st.rtErr]

\* A mutant of RunContainerCreateRet: Start is issued whatever CreateContainer gave.
RunContainerStartsAnyway ==
    \E startOK \in BOOLEAN, ready \in BOOLEAN :
        LET st == Start(Top.ret.c, containers, startOK, ready) IN
        /\ Return([NoRet EXCEPT !.c = Top.ret.c, !.err = Top.ret.err])
        /\ containers' = st.containers
        /\ rtCalls' = Issued(rtCalls, "ContainerStart")
        /\ rtFailed' = (rtFailed \/ st.rtErr # "")
        /\ UNCHANGED <<nextUUID, issued, reapers, images, nextID>>

\* The code of RunContainer after CreateContainer returned.
RunContainerCreateRet ==
    \E startOK \in BOOLEAN, ready \in BOOLEAN :
        LET t == RunContainerTail(Top.ret, containers, startOK, ready) IN
        /\ Return(t.ret)
        /\ containers' = t.containers
        /\ rtCalls' = IF t.started THEN Issued(rtCalls, "ContainerStart") ELSE rtCalls
        /\ rtFailed' = (rtFailed \/ t.rtErr # "")
        /\ UNCHANGED <<nextUUID, issued, reapers, images, nextID>>

(***************************************************************************)
(* The provider scenario.                                                  *)
(***************************************************************************)
NoCall == [fn |-> "", provider |-> "", req |-> NoRequest]

\* No Connect was called: there is no connection and no watcher.
WatcherIdle ==
    /\ callerPc = "idle"
    /\ watcherPc = "none"
    /\ conn = "none"
    /\ labelFilters = <<>>
    /\ retryLimit = 0
    /\ wbuf = <<>>
    /\ werr = FALSE
    /\ wire = <<>>
    /\ peerClosed = FALSE
    /\ attempts = 0
    /\ failures = <<>>
    /\ replies = <<>>
    /\ gaveUp = FALSE

\* No method was called on a handle.
NoOp ==
    [n |-> 0, op |-> "", arg |-> "", ret |-> "", ports |-> {}, err |-> "", panic |-> FALSE,
     called |-> FALSE, waited |-> FALSE, waitErr |-> "", rtErr |-> ""]

\* Test code holds no handle.
HandleIdle ==
    /\ handle = NoHandle
    /\ hlast = NoOp
    /\ terminated = FALSE

Init ==
    /\ stack = <<>>
    /\ fatal = FALSE
    /\ calls = 0
    /\ call = NoCall
    /\ result = NoRet
    /\ nextUUID = 0
    /\ issued = {}
    /\ reapers = {}
    /\ connected = {}
    /\ images = {}
    /\ containers = {}
    /\ nextID = 0
    /\ rtFailed = FALSE
    /\ rtCalls = NoCalls
    /\ reaper = NoReaper
    /\ WatcherIdle
    /\ HandleIdle

\* Test code calls p.CreateContainer(ctx, req).
CallCreateContainer ==
    \E p \in Providers, req \in ContainerRequest :
        /\ stack = <<>> /\ ~fatal /\ calls < MaxCalls
        /\ stack' = <<Frame("CreateContainer", "parse", p, req)>>
        /\ calls' = calls + 1
        /\ call' = [fn |-> "CreateContainer", provider |-> p, req |-> req]
        /\ result' = NoRet
        /\ UNCHANGED <<fatal, nextUUID, issued, reapers, connected, images, containers,
                       nextID, rtFailed, rtCalls, reaperVars, handleVars>>

\* Test code calls p.RunContainer(ctx, req).
CallRunContainer ==
    \E p \in Providers, req \in ContainerRequest :
        /\ stack = <<>> /\ ~fatal /\ calls < MaxCalls
        /\ stack' = <<Frame("RunContainer", "create", p, req)>>
        /\ calls' = calls + 1
        /\ call' = [fn |-> "RunContainer", provider |-> p, req |-> req]
        /\ result' = NoRet
        /\ UNCHANGED <<fatal, nextUUID, issued, reapers, connected, images, containers,
                       nextID, rtFailed, rtCalls, reaperVars, handleVars>>

\* The goroutine runs the innermost frame up to its next call or return.
\* CreateContainer, NewReaper and RunContainer call one another in a cycle on
\* the one DockerProvider, so a frame that got past ParsePortSpecs never sees
\* its callee return: the arms reaperRet, config, image, create and runRet are
\* the code after those calls (ReturnsOnlyValidationErrors).
Step ==
    /\ stack # <<>> /\ ~fatal
    /\ CASE Top.fn = "CreateContainer" /\ Top.pc = "parse" -> CreateContainerParse
         [] Top.fn = "CreateContainer" /\ Top.pc = "reaper" -> CreateContainerNewReaper
         [] Top.fn = "CreateContainer" /\ Top.pc = "reaperRet" -> CreateContainerReaperRet
         [] Top.fn = "CreateContainer" /\ Top.pc = "config" -> CreateContainerConfig
         [] Top.fn = "CreateContainer" /\ Top.pc = "image" -> CreateContainerImage
         [] Top.fn = "CreateContainer" /\ Top.pc = "create" -> CreateContainerCreate
         [] Top.fn = "NewReaper" /\ Top.pc = "alloc" -> NewReaperAlloc
         [] Top.fn = "NewReaper" /\ Top.pc = "run" -> NewReaperRun
         [] Top.fn = "NewReaper" /\ Top.pc = "runRet" -> NewReaperRunRet
         [] Top.fn = "RunContainer" /\ Top.pc = "create" -> RunContainerCreate
         [] Top.fn = "RunContainer" /\ Top.pc = "createRet" -> RunContainerCreateRet
         [] OTHER -> FALSE
    /\ UNCHANGED <<calls, call, connected, reaperVars, handleVars>>

Next == CallCreateContainer \/ CallRunContainer \/ Step


Spec == Init /\ [][Next]_vars

(***************************************************************************)
(* reaper.go: Reaper.Connect and its watcher goroutine. Text on the        *)
(* connection is a sequence of pieces: the filter is built from the pieces *)
(* fmt.Sprintf and strings.Join put together, a response is a sequence of  *)
(* characters.                                                             *)
(***************************************************************************)
\* Sessions of the Reapers test code holds in the reaper scenario.
NumSessions == 2

\* A mutant of RetryLimit: one attempt more.
RetryLimitPlusOne == 3 + 1

\* retryLimit := 3
RetryLimit == 3

\* A mutant of DeferredClose: the deferred conn.Close() is missing.
DeferredCloseMissing == "open"

\* defer conn.Close(): the state of the connection once the goroutine returned.
DeferredClose == "closed"

\* fmt.Sprintf("label=%s=%s", l, v)
Sprintf(l, v) == <<"label=", l, "=", v>>

\* strings.Join(elems, sep)
RECURSIVE Join(_, _)
Join(elems, sep) ==
    IF elems = <<>> THEN <<>>
    ELSE IF Len(elems) = 1 THEN elems[1]
    ELSE elems[1] \o <<sep>> \o Join(Tail(elems), sep)

\* The orders in which `for l, v := range r.GetLabels()` may visit the map's keys.
RangeOrders(m) ==
    {o \in [1..Cardinality(DOMAIN m) -> DOMAIN m] :
        \A i, j \in DOMAIN o : i # j => o[i] # o[j]}

\* bufio.Reader.ReadString('\n') on the characters `data` the sidecar sent,
\* `eof` telling that the stream ended after them: the text up to and including
\* the first delimiter, or, when the stream ends before a delimiter, the text
\* read so far with the error.
ReadString(data, eof) ==
    IF \E i \in 1..Len(data) : data[i] = "\n"
    THEN [resp |-> SubSeq(data, 1, CHOOSE i \in 1..Len(data) :
                                       /\ data[i] = "\n"
                                       /\ \A j \in 1..(i - 1) : data[j] # "\n"),
          err |-> ""]
    ELSE [resp |-> data, err |-> "EOF"]

\* if resp == "ACK"
RespIsAck(resp) == resp = <<"A", "C", "K">>

\* What the sidecar may answer a read with: the acknowledgement line, another
\* line, the acknowledgement without its newline before closing, or nothing
\* before closing (or a read error).
AckLine == [data |-> <<"A", "C", "K", "\n">>, eof |-> FALSE]
SidecarReplies ==
    { AckLine,
      [data |-> <<"N", "O", "\n">>, eof |-> FALSE],
      [data |-> <<"A", "C", "K">>, eof |-> TRUE],
      [data |-> <<>>, eof |-> TRUE] }

\* Connect up to `go func()`: net.Dial, make(chan bool), the goroutine started,
\* the channel returned; or the wrapped error of a failed Dial.
Connect ==
    \E dialOK \in BOOLEAN :
        /\ callerPc = "idle" /\ reaper # NoReaper
        /\ IF dialOK
           THEN /\ callerPc' = "connected"
                /\ conn' = "open"
                /\ watcherPc' = "start"
                /\ connected' = connected \cup {reaper.SessionID}
           ELSE /\ callerPc' = "connectErr"
                /\ UNCHANGED <<conn, watcherPc, connected>>
        /\ UNCHANGED <<provVars, reaper, labelFilters, retryLimit, wbuf, werr, wire,
                       peerClosed, attempts, failures, replies, gaveUp, handleVars>>

\* Test code starts `terminationSignal <- true`: the channel is unbuffered, the
\* send completes when the watcher receives.
CallerSend ==
    /\ callerPc = "connected"
    /\ callerPc' = "sending"
    /\ UNCHANGED <<provVars, connected, reaper, watcherPc, conn, labelFilters,
                   retryLimit, wbuf, werr, wire, peerClosed, attempts, failures,
                   replies, gaveUp, handleVars>>

\* sock := ...; labelFilters built from r.GetLabels(); retryLimit := 3
WatcherStart ==
    \E o \in RangeOrders(GetLabels(reaper)) :
        /\ labelFilters' = [i \in DOMAIN o |-> Sprintf(o[i], GetLabels(reaper)[o[i]])]
        /\ retryLimit' = RetryLimit
        /\ watcherPc' = "loop"
        /\ UNCHANGED <<callerPc, conn, wbuf, werr, wire, peerClosed, attempts, failures,
                       replies, gaveUp>>

\* if retryLimit <= 0 { fmt.Println("Warning: ..."); return }; retryLimit--
WatcherLoop ==
    /\ IF retryLimit <= 0
       THEN /\ gaveUp' = TRUE
            /\ watcherPc' = "done"
            /\ conn' = DeferredClose
            /\ UNCHANGED retryLimit
       ELSE /\ retryLimit' = retryLimit - 1
            /\ watcherPc' = "write"
            /\ UNCHANGED <<gaveUp, conn>>
    /\ UNCHANGED <<callerPc, labelFilters, wbuf, werr, wire, peerClosed, attempts,
                   failures, replies>>

\* sock.WriteString(strings.Join(labelFilters, "&")): the text goes to the
\* writer's buffer (it is far shorter than the buffer), unless the writer's
\* sticky error is set.
WatcherWrite ==
    /\ wbuf' = IF werr THEN wbuf ELSE wbuf \o Join(labelFilters, "&")
    /\ attempts' = attempts + 1
    /\ watcherPc' = "flush"
    /\ UNCHANGED <<callerPc, conn, labelFilters, retryLimit, werr, wire, peerClosed,
                   failures, replies, gaveUp>>

\* if err := sock.Flush(); err != nil { continue }: a writer whose sticky error
\* is set returns it at once; otherwise the buffer is written to the connection,
\* or the write fails after `n` pieces (a short write), the rest stays buffered
\* and the error sticks to the writer.
WatcherFlush ==
    \E writeOK \in BOOLEAN, n \in 0..(Len(wbuf) - 1) :
        /\ IF ~werr /\ writeOK
           THEN /\ wire' = Append(wire, wbuf)
                /\ wbuf' = <<>>
                /\ watcherPc' = "read"
                /\ UNCHANGED <<werr, failures>>
           ELSE /\ werr' = TRUE
                /\ failures' = Append(failures, "write")
                /\ watcherPc' = "loop"
                /\ wire' = IF ~werr /\ n > 0 THEN Append(wire, SubSeq(wbuf, 1, n)) ELSE wire
                /\ wbuf' = IF ~werr THEN SubSeq(wbuf, n + 1, Len(wbuf)) ELSE wbuf
        /\ UNCHANGED <<callerPc, conn, labelFilters, retryLimit, peerClosed, attempts,
                       replies, gaveUp>>

\* resp, err := sock.ReadString('\n'); if err != nil { continue };
\* if resp == "ACK" { break }. The read returns when the sidecar has answered.
WatcherRead ==
    \E reply \in SidecarReplies :
        LET rs == ReadString(reply.data, reply.eof) IN
        /\ peerClosed => reply = [data |-> <<>>, eof |-> TRUE]
        /\ replies' = Append(replies, reply)
        /\ peerClosed' = (peerClosed \/ reply.eof)
        /\ IF rs.err # ""
           THEN /\ failures' = Append(failures, "read")
                /\ watcherPc' = "loop"
           ELSE IF RespIsAck(rs.resp)
           THEN /\ watcherPc' = "wait"
                /\ UNCHANGED failures
           ELSE /\ failures' = Append(failures, "nonack")
                /\ watcherPc' = "loop"
        /\ UNCHANGED <<callerPc, conn, labelFilters, retryLimit, wbuf, werr, wire,
                       attempts, gaveUp>>

\* <-terminationSignal, then the goroutine returns: the receive pairs with the
\* send of test code, which completes with it.
WatcherWait ==
    /\ callerPc = "sending"
    /\ callerPc' = "sent"
    /\ watcherPc' = "done"
    /\ conn' = DeferredClose
    /\ UNCHANGED <<labelFilters, retryLimit, wbuf, werr, wire, peerClosed, attempts,
                   failures, replies, gaveUp>>

\* The watcher goroutine runs up to its next blocking point. ReadString gives
\* the delimiter with the line, so no response equals "ACK" and the arm wait is
\* never reached (WaitNeverReached).
WatcherStep ==
    /\ CASE watcherPc = "start" -> WatcherStart
         [] watcherPc = "loop" -> WatcherLoop
         [] watcherPc = "write" -> WatcherWrite
         [] watcherPc = "flush" -> WatcherFlush
         [] watcherPc = "read" -> WatcherRead
         [] watcherPc = "wait" -> WatcherWait
         [] OTHER -> FALSE
    /\ UNCHANGED <<provVars, connected, reaper, handleVars>>

(***************************************************************************)
(* The reaper scenario: test code holds a Reaper whose sidecar endpoint    *)
(* was resolved.                                                           *)
(***************************************************************************)
ReaperInit ==
    /\ stack = <<>>
    /\ fatal = FALSE
    /\ calls = 0
    /\ call = NoCall
    /\ result = NoRet
    /\ nextUUID = NumSessions
    /\ issued = {}
    /\ reapers = {}
    /\ connected = {}
    /\ images = {}
    /\ containers = {}
    /\ nextID = 0
    /\ rtFailed = FALSE
    /\ rtCalls = NoCalls
    /\ reaper \in {[Provider |-> "external", SessionID |-> UUIDString(n),
                    Endpoint |-> "localhost:8080"] : n \in 1..NumSessions}
    /\ WatcherIdle
    /\ HandleIdle

ReaperNext == Connect \/ CallerSend \/ WatcherStep

ReaperSpec == ReaperInit /\ [][ReaperNext]_vars

\* The goroutine of the watcher is scheduled, and the sidecar answers every read.
FairReaperSpec == ReaperSpec /\ WF_vars(WatcherStep)


(***************************************************************************)
(* The handle scenario: test code holds a DockerContainer for a container  *)
(* the runtime holds in the Created state, and calls its methods one at a  *)
(* time.                                                                   *)
(***************************************************************************)
\* Method calls test code makes on the handle in one run.
MaxOps == 4

\* ExposedPorts and published ports of the container: none; one port,
\* published; one port the image exposes and nothing publishes; two protocols
\* of one port number, both published.
PortSetups ==
    { <<{}, {}>>,
      <<{"80/tcp"}, {"80/tcp"}>>,
      <<{"80/tcp"}, {}>>,
      <<{"80/tcp", "80/udp"}, {"80/tcp", "80/udp"}>> }

\* The arguments test code passes to GetMappedPort and to GetHostEndpoint.
MappedPortArgs == {80, 8080}
HostEndpointArgs == {"80", "8080", "80/tcp/udp"}

\* A container of image alpine as the runtime holds it after its creation.
CreatedContainer(ps) ==
    [ID |-> "c1", Image |-> "alpine",
     Labels |-> GetLabels([NoReaper EXCEPT !.SessionID = UUIDString(1)]),
     State |-> "created", ExposedPorts |-> ps[1], PortBindings |-> ps[2],
     Ports |-> NoPorts, IPAddress |-> ""]

\* The DockerContainer for it, with WaitingFor w.
HandleOf(w) ==
    [ID |-> "c1", WaitingFor |-> w, sessionID |-> UUIDString(1), raw |-> NoRaw,
     provider |-> "p1"]

HandleInit ==
    /\ stack = <<>>
    /\ fatal = FALSE
    /\ calls = 0
    /\ call = NoCall
    /\ result = NoRet
    /\ nextUUID = 1
    /\ issued = {}
    /\ reapers = {}
    /\ connected = {}
    /\ images = {"alpine"}
    /\ \E ps \in PortSetups : containers = {CreatedContainer(ps)}
    /\ nextID = 1
    /\ rtFailed = FALSE
    /\ rtCalls = NoCalls
    /\ reaper = NoReaper
    /\ WatcherIdle
    /\ \E w \in Strategies : handle = HandleOf(w)
    /\ hlast = NoOp
    /\ terminated = FALSE

\* A getter was called with `arg` and ended with outcome o. A panic is not
\* recovered: the process dies.
Getter(op, arg, o) ==
    /\ handle' = o.c
    /\ hlast' = [n |-> hlast.n + 1, op |-> op, arg |-> arg, ret |-> o.ret,
                 ports |-> o.ports, err |-> o.err, panic |-> o.panic,
                 called |-> o.called, waited |-> FALSE, waitErr |-> "",
                 rtErr |-> o.rtErr]
    /\ fatal' = o.panic
    /\ rtCalls' = IF o.called THEN Issued(rtCalls, "ContainerInspect") ELSE rtCalls
    /\ rtFailed' = (rtFailed \/ o.rtErr # "")
    /\ UNCHANGED <<stack, calls, call, result, nextUUID, issued, reapers, images,
                   containers, nextID, connected, reaperVars, terminated>>

CallGetPorts ==
    \E ok \in BOOLEAN :
        /\ ~fatal /\ hlast.n < MaxOps
        /\ \E o \in GetPorts(handle, containers, ok) : Getter("GetPorts", "", o)

CallGetIPAddress ==
    \E ok \in BOOLEAN :
        /\ ~fatal /\ hlast.n < MaxOps
        /\ \E o \in GetIPAddress(handle, containers, ok) : Getter("GetIPAddress", "", o)

CallGetMappedPort ==
    \E ok \in BOOLEAN, port \in MappedPortArgs :
        /\ ~fatal /\ hlast.n < MaxOps
        /\ \E o \in GetMappedPort(handle, containers, ok, port) :
               Getter("GetMappedPort", Itoa(port), o)

CallGetHostEndpoint ==
    \E ok \in BOOLEAN, port \in HostEndpointArgs :
        /\ ~fatal /\ hlast.n < MaxOps
        /\ \E o \in GetHostEndpoint(handle, containers, ok, port) :
               Getter("GetHostEndpoint", port, o)

\* Test code calls c.Start(ctx).
CallStart ==
    \E ok \in BOOLEAN, ready \in BOOLEAN :
        LET st == Start(handle, containers, ok, ready) IN
        /\ ~fatal /\ hlast.n < MaxOps
        /\ containers' = st.containers
        /\ hlast' = [NoOp EXCEPT !.n = hlast.n + 1, !.op = "Start", !.err = st.err,
                                 !.waited = st.waited, !.waitErr = st.waitErr,
                                 !.rtErr = st.rtErr]
        /\ rtCalls' = IF st.started THEN Issued(rtCalls, "ContainerStart") ELSE rtCalls
        /\ rtFailed' = (rtFailed \/ st.rtErr # "")
        /\ UNCHANGED <<stack, fatal, calls, call, result, nextUUID, issued, reapers, images,
                       nextID, connected, reaperVars, handle, terminated>>

\* Test code calls c.Terminate(ctx).
CallTerminate ==
    \E ok \in BOOLEAN :
        LET t == Terminate(handle, containers, ok) IN
        /\ ~fatal /\ hlast.n < MaxOps
        /\ containers' = t.containers
        /\ hlast' = [NoOp EXCEPT !.n = hlast.n + 1, !.op = "Terminate", !.err = t.err,
                                 !.rtErr = t.err]
        /\ terminated' = (terminated \/ t.err = "")
        /\ rtCalls' = Issued(rtCalls, "ContainerRemove")
        /\ rtFailed' = (rtFailed \/ t.err # "")
        /\ UNCHANGED <<stack, fatal, calls, call, result, nextUUID, issued, reapers, images,
                       nextID, connected, reaperVars, handle>>

\* The container's live state changes without test code: the runtime restarts
\* the running container, which comes up with another address.
RuntimeRestart ==
    /\ \E c \in containers : c.State = "running" /\ c.IPAddress = FirstIP
    /\ containers' = {IF c.State = "running" THEN [c EXCEPT !.IPAddress = LaterIP] ELSE c :
                          c \in containers}
    /\ UNCHANGED <<stack, fatal, calls, call, result, nextUUID, issued, reapers, images,
                   nextID, rtFailed, rtCalls, connected, reaperVars, handleVars>>

HandleNext ==
    \/ CallGetPorts
    \/ CallGetIPAddress
    \/ CallGetMappedPort
    \/ CallGetHostEndpoint
    \/ CallStart
    \/ CallTerminate
    \/ RuntimeRestart

HandleSpec == HandleInit /\ [][HandleNext]_vars

(***************************************************************************)
(* Properties of the provider scenario.                                    *)
(***************************************************************************)
\* The call test code made is over: it returned, or the process died in it.
CallOver == call.fn # "" /\ (stack = <<>> \/ fatal)

\* The CreateContainer frames whose NewReaper call has built its Reaper struct:
\* the Reaper is the one CreateContainer's `r` is to receive.
WithReaper ==
    {i \in 1..(Len(stack) - 1) :
        /\ stack[i].fn = "CreateContainer"
        /\ stack[i + 1].fn = "NewReaper"
        /\ stack[i + 1].r # NoReaper}

\* The container.Config CreateContainer builds for frame i from that Reaper.
ConfigOf(i) ==
    DockerInput(stack[i].req, ParsePortSpecs(stack[i].req.ExportedPort).portSet,
                stack[i + 1].r)

\* No callee of a frame past ParsePortSpecs returns, and no runtime call is made:
\* the only value test code ever gets back is the request-validation error.
ReturnsOnlyValidationErrors ==
    /\ \A i \in 1..Len(stack) :
           stack[i].pc \notin {"reaperRet", "runRet"} \/ i < Len(stack)
    /\ \A i \in 1..Len(stack) :
           stack[i].fn = "CreateContainer" => stack[i].pc \in {"parse", "reaper", "reaperRet"}
    /\ result = NoRet \/ result = Err("invalid port")
    /\ containers = {} /\ images = {} /\ ~rtFailed

\* C1: for a provider whose runtime calls all succeed, CreateContainer called
\* with image alpine, exported port 80/tcp and no command ends by returning a
\* handle that carries a runtime-assigned ID, of a container the runtime holds
\* in the Created state.
C1_CreateContainerReturnsHandle ==
    ( /\ call.fn = "CreateContainer"
      /\ call.req.Image = "alpine"
      /\ call.req.ExportedPort = <<"80/tcp">>
      /\ call.req.Cmd = ""
      /\ ~rtFailed
      /\ CallOver )
    => /\ result.err = ""
       /\ result.c.ID # ""
       /\ \E c \in containers : c.ID = result.c.ID /\ c.State = "created"

\* C6: every container the provider creates is registered for reaping: a call
\* that is over and was not refused with an error has had Connect called on the
\* Reaper of a session its provider generated.
C6_ReaperConnected ==
    (CallOver /\ result.err = "")
    => \E s \in issued : s.provider = call.provider /\ s.sessionID \in connected

\* C7: over any sequence of CreateContainer calls on one provider instance, a
\* Reaper is constructed at most once.
C7_OneReaperPerProvider ==
    \A p \in Providers : Cardinality({r \in reapers : r.Provider = p}) <= 1

\* C8: two CreateContainer calls tag their containers with the same
\* session-ownership label value if and only if they were made on the same
\* provider instance.
C8_SessionPerProvider ==
    \A a, b \in issued :
        (GetLabels([NoReaper EXCEPT !.SessionID = a.sessionID])[TestcontainerLabelSessionID]
           = GetLabels([NoReaper EXCEPT !.SessionID = b.sessionID])[TestcontainerLabelSessionID])
        <=> (a.provider = b.provider)

\* C9: for every request, also one whose Labels set an invariant key to another
\* value, the labels of the container.Config built for the runtime create call
\* hold the managed-by key with "true" and the session-ownership key with the
\* session identifier of that call.
C9_InvariantKeysKept ==
    \A i \in WithReaper :
        /\ InvariantKeys \subseteq DOMAIN ConfigOf(i).Labels
        /\ ConfigOf(i).Labels[TestcontainerLabel] = "true"
        /\ ConfigOf(i).Labels[TestcontainerLabelSessionID] = stack[i].sessionID

\* C9's case: a request that sets an invariant key to another value has reached
\* the point where its Reaper is built.
C9_Witness ==
    \E i \in WithReaper :
        /\ TestcontainerLabelSessionID \in DOMAIN stack[i].req.Labels
        /\ stack[i].req.Labels[TestcontainerLabelSessionID] # stack[i].sessionID
        /\ stack[i].sessionID # ""

\* C10: every key/value pair of the request's Labels whose key is not one of the
\* two invariant keys is among the labels of the container.Config built for the
\* runtime create call.
C10_RequestLabelsKept ==
    \A i \in WithReaper :
        \A k \in (DOMAIN stack[i].req.Labels) \ InvariantKeys :
            /\ k \in DOMAIN ConfigOf(i).Labels
            /\ ConfigOf(i).Labels[k] = stack[i].req.Labels[k]

\* The value the innermost frame hands back in a step in which it returns:
\* to test code, or to the frame that called it.
Returned == IF Len(stack) = 1 THEN result' ELSE stack'[Len(stack')].ret

\* C11: a CreateContainer call that is over while the NewReaper it called has
\* not handed back a Reaper (the sidecar could not be run, or its port not
\* resolved) has returned an error and no handle, and no ImagePull and no
\* ContainerCreate was issued.
C11_ReaperFailureIsReturned ==
    ( /\ call.fn = "CreateContainer"
      /\ CallOver
      /\ \E i \in 1..Len(stack) : stack[i].fn = "NewReaper" )
    => /\ result.err # ""
       /\ result.c = NoHandle
       /\ rtCalls["ImagePull"] = 0
       /\ rtCalls["ContainerCreate"] = 0

\* C12: a RunContainer whose CreateContainer returned an error hands back that
\* error and no handle without issuing ContainerStart or changing a container;
\* and for every container CreateContainer could have created, RunContainer
\* issues Start, hands back the handle whatever Start gave, with an error
\* exactly when the runtime's start or the readiness strategy failed, and the
\* runtime no longer holds the container after Terminate on that handle.
C12_StartOnlyAfterCreate ==
    /\ [][ ( /\ stack # <<>> /\ ~fatal
             /\ Top.fn = "RunContainer" /\ Top.pc = "createRet"
             /\ Top.ret.err # "" )
           => /\ Len(stack') = Len(stack) - 1
              /\ Returned.err # ""
              /\ Returned.c = NoHandle
              /\ UNCHANGED <<rtCalls, containers>> ]_vars
    /\ [](\A ps \in PortSetups, w \in Strategies, startOK \in BOOLEAN, ready \in BOOLEAN :
             LET t == RunContainerTail([NoRet EXCEPT !.c = HandleOf(w)],
                                       {CreatedContainer(ps)}, startOK, ready)
             IN  /\ t.started
                 /\ t.ret.c = HandleOf(w)
                 /\ (t.ret.err # "") <=> (~startOK \/ (w # "nil" /\ ~ready))
                 /\ ~Exists(Terminate(t.ret.c, t.containers, TRUE).containers, "c1"))

\* C12's case: RunContainer was called with a request CreateContainer refuses,
\* and returned the error without a handle and without a ContainerStart.
C12_Witness ==
    /\ call.fn = "RunContainer"
    /\ stack = <<>>
    /\ result.err = "invalid port"
    /\ result.c = NoHandle
    /\ rtCalls["ContainerStart"] = 0

\* C17: a CreateContainer whose request has a malformed port specification
\* returns, in its first step, an error and no handle, and that step draws no
\* session, allocates no Reaper, issues no call on the runtime and changes no
\* image and no container.
C17_MalformedPortNoSideEffect ==
    [][ ( /\ stack # <<>> /\ ~fatal
          /\ Top.fn = "CreateContainer"
          /\ ParsePortSpecs(Top.req.ExportedPort).err # "" )
        => /\ Len(stack') = Len(stack) - 1
           /\ Returned.err # ""
           /\ Returned.c = NoHandle
           /\ UNCHANGED <<nextUUID, issued, reapers, connected, images, containers, nextID,
                          rtCalls, rtFailed>> ]_vars

\* C17's case: CreateContainer was called with a malformed port specification
\* and has returned.
C17_Witness ==
    /\ call.fn = "CreateContainer"
    /\ ParsePortSpecs(call.req.ExportedPort).err # ""
    /\ stack = <<>>
    /\ result.err = "invalid port"
    /\ result.c = NoHandle
    /\ reapers = {}
    /\ rtCalls = NoCalls

(***************************************************************************)
(* Properties of the reaper scenario.                                      *)
(***************************************************************************)
\* The watcher never gets to its receive, and test code's send never completes.
WaitNeverReached == watcherPc # "wait" /\ callerPc # "sent"

\* C2: when the sidecar answers the watcher's first filter write with the
\* newline-terminated line ACK, the handshake succeeds after one write/read
\* round trip: the watcher writes no second time and waits for (or has
\* received) the termination signal.
C2_AckEndsHandshake ==
    (Len(replies) >= 1 /\ replies[1] = AckLine)
    => /\ attempts = 1
       /\ watcherPc \in {"wait", "done"}
       /\ ~gaveUp

\* C3: the watcher never makes more than 3 attempts; every attempt takes one
\* from the limit, every write failure, read failure and non-ACK response ends
\* exactly one attempt, and the watcher gives up only after three failed
\* attempts, making no attempt after that.
C3_AtMostThreeAttempts ==
    /\ attempts <= 3
    /\ watcherPc \in {"loop", "flush", "read", "wait", "done"}
           => attempts + retryLimit = 3
    /\ watcherPc = "write" => attempts + retryLimit = 2
    /\ Len(failures) = IF watcherPc \in {"flush", "read", "wait"} \/ (watcherPc = "done" /\ ~gaveUp)
                       THEN attempts - 1 ELSE attempts
    /\ gaveUp => attempts = 3 /\ Len(failures) = 3 /\ watcherPc = "done"

\* C3's case: the watcher gave up after a non-ACK response, a read failure and a
\* write failure.
C3_Witness ==
    /\ gaveUp
    /\ {failures[i] : i \in DOMAIN failures} = {"write", "read", "nonack"}

C5_CallerNeverBlocked ==
    ~(gaveUp /\ watcherPc = "done" /\ callerPc = "sending")

\* The complete lines for Reaper r: one label=<key>=<value> clause per entry of
\* r.GetLabels(), in any order, joined by "&" and ended by a newline.
FilterLines(r) ==
    {Join([i \in DOMAIN o |-> Sprintf(o[i], GetLabels(r)[o[i]])], "&") \o <<"\n">> :
        o \in RangeOrders(GetLabels(r))}

\* C16: what an attempt has put on the connection when its flush succeeded and
\* it waits for the answer is one complete line: a clause for each of the two
\* invariant keys and no other, joined by "&", ended by a newline.
C16_AttemptWritesLine ==
    watcherPc = "read" => wire[Len(wire)] \in FilterLines(reaper)

\* C19: once the sidecar has acknowledged the filter, and until the watcher has
\* received the termination signal, this process has not closed the connection.
C19_OpenUntilSignal ==
    ((\E i \in DOMAIN replies : replies[i] = AckLine) /\ callerPc # "sent")
    => conn = "open"

(***************************************************************************)
(* Properties of the handle scenario.                                      *)
(***************************************************************************)
Getters == {"GetPorts", "GetIPAddress", "GetMappedPort", "GetHostEndpoint"}

\* A method was called on the handle in this step.
Called(ops) == hlast'.n # hlast.n /\ hlast'.op \in ops

\* The runtime holds the handle's container running.
Running(cs) == \E c \in cs : c.ID = handle.ID /\ c.State = "running"

\* C13: when the port GetMappedPort is asked for is among the container's
\* exposed ports and no entry of its number has a host binding, GetMappedPort
\* returns "0" and no error, and does not panic; GetHostEndpoint returns the
\* not-found error when the port's entry is missing or has no binding.
C13_UnboundPortGivesSentinel ==
    LET Ports == handle.raw.NetworkSettings.Ports IN
    /\ ( /\ hlast.op = "GetMappedPort"
         /\ handle.raw # NoRaw
         /\ \E k \in handle.raw.Config.ExposedPorts : Port(k) = hlast.arg
         /\ \A k \in DOMAIN Ports : Port(k) = hlast.arg => Ports[k] = <<>> )
       => (hlast.ret = "0" /\ hlast.err = "" /\ ~hlast.panic)
    /\ ( /\ hlast.op = "GetHostEndpoint"
         /\ handle.raw # NoRaw
         /\ hlast.arg \in WellFormedSpecs
         /\ (NatPort(hlast.arg) \notin DOMAIN Ports \/ Ports[NatPort(hlast.arg)] = <<>>) )
       => (hlast.err = "port not found" /\ hlast.ret = "")

C15_TerminatedIsFinal ==
    /\ [](terminated => ~Exists(containers, handle.ID))
    /\ [][ terminated =>
              /\ ~Exists(containers', handle.ID)
              /\ Called({"Start", "Terminate"}) => hlast'.err = NotFound ]_vars

\* C15's case: a second Terminate after one that succeeded.
C15_Witness ==
    /\ terminated
    /\ hlast.op = "Terminate"
    /\ hlast.err = NotFound
    /\ rtCalls["ContainerRemove"] >= 2

\* C18: every Start issues ContainerStart; the strategy is invoked only when
\* the runtime's start succeeded, with the container running; an error of
\* the runtime's start is returned as it is, the strategy not invoked; and
\* when the strategy fails Start returns its error, the container is running
\* and no ContainerRemove was issued.
C18_StrategyAfterStart ==
    [][ Called({"Start"}) =>
          /\ rtCalls'["ContainerStart"] = rtCalls["ContainerStart"] + 1
          /\ hlast'.waited => (hlast'.rtErr = "" /\ Running(containers'))
          /\ hlast'.rtErr # "" => (hlast'.err = hlast'.rtErr /\ ~hlast'.waited)
          /\ hlast'.waitErr # "" =>
                /\ hlast'.waited
                /\ hlast'.err = hlast'.waitErr
                /\ Running(containers')
                /\ rtCalls'["ContainerRemove"] = rtCalls["ContainerRemove"] ]_vars

\* C18's case: a Start whose strategy failed after the runtime started the
\* container.
C18_Witness ==
    /\ hlast.op = "Start"
    /\ hlast.waited
    /\ hlast.waitErr # ""
    /\ hlast.err # ""
    /\ Running(containers)

\* C20: a getter called with the cache empty issues one ContainerInspect; when
\* that fails the cache stays empty and the getter returns the inspect's
\* error; the cache changes only from empty, in a getter whose inspect
\* succeeded, to what that inspect gave.
C20_FailedInspectLeavesCacheEmpty ==
    [][ /\ (Called(Getters) /\ handle.raw = NoRaw) =>
              /\ rtCalls'["ContainerInspect"] = rtCalls["ContainerInspect"] + 1
              /\ hlast'.called
              /\ hlast'.rtErr # "" => (handle'.raw = NoRaw /\ hlast'.err = hlast'.rtErr)
        /\ handle'.raw # handle.raw =>
              /\ handle.raw = NoRaw
              /\ Called(Getters) /\ hlast'.called /\ hlast'.rtErr = ""
              /\ handle'.raw = ContainerInspect(containers, handle.ID, TRUE).json ]_vars

\* C20's case: a getter whose inspect failed, then a getter that issued a new
\* inspect, which succeeded and set the cache.
C20_Witness ==
    /\ rtFailed
    /\ rtCalls = [NoCalls EXCEPT !["ContainerInspect"] = 2]
    /\ hlast.n = 2
    /\ hlast.called /\ hlast.err = ""
    /\ handle.raw # NoRaw

====
